---- MODULE Spec2Model ----
(***************************************************************************)
(* Model of the client-side protection core of encryptopia-file-haven:     *)
(*   - the request governor of src/lib/requestUtils.ts                     *)
(*     (throttleRequest, withRetry, safeRequest);                          *)
(*   - the cipher engines (encryptFile, decryptFile,                       *)
(*     encryptFileWithPassword, decryptFileWithPassword), the content scan *)
(*     of lib/security.ts and the file operations of hooks/useFiles;       *)
(*   - the face recognition component components/FaceRecognition.tsx;      *)
(*   - the session timer of the AuthProvider of hooks/useAuth.tsx.         *)
(***************************************************************************)
EXTENDS Integers, Sequences, FiniteSets, TLC

(***************************************************************************)
(* Program constants (src/lib/requestUtils.ts:4-6).                        *)
(***************************************************************************)
MAX_CONCURRENT_REQUESTS == 5
RETRY_DELAY_MS == 1000
MAX_RETRIES == 3

(***************************************************************************)
(* Bounds of the model.                                                    *)
(***************************************************************************)
\* number of submissions to the governor
MaxTasks == 8
\* number of submissions when safeRequest (retrying) calls are among them
MaxRetryTasks == 7
\* how many safeRequest calls may be in flight at a time
MaxSafe == 1
\* number of submissions when completion of every call is checked
MaxLiveTasks == 6

Tasks == 1..MaxTasks

VARIABLES
    \* ---- request governor (module-level state of requestUtils.ts) ----
    activeRequests,   \* let activeRequests = 0
    requestQueue,     \* const requestQueue: (() => void)[]
    \* ---- one frame per call of throttleRequest / safeRequest; the locals
    \*      of a call that has returned are dropped ----
    nextTask,         \* id of the next submission (submission order = id order)
    st,               \* position of each call: unsubmitted, queued, running,
                      \*   backoff, done
    kind,             \* "throttle" (throttleRequest(fn)) or "safe" (safeRequest(fn))
    immediate,        \* TRUE when the call took the immediate path (line 18)
    attempts,         \* number of invocations of the task function so far
    retries,          \* withRetry's `retries` parameter of the current frame
    delay,            \* withRetry's `delay` parameter of the current frame
    waited,           \* total backoff delay waited so far (ms)
    delivered,        \* the promise of throttleRequest settled by the last step
    startOrder,       \* task ids in the order in which they began running
    releases,         \* how many times each call decremented activeRequests
    \* ---- object store and record store behind hooks/useFiles.ts ----
    store,            \* bytes stored at the file's path (<<>> when absent)
    rec,              \* the file's row of table `files` (<<>> when absent)
    orig,             \* the plaintext the user uploaded for the file
    last,             \* what the last file operation returned to its caller
    envelopes,        \* the calls of encryptFileWithPassword made so far, in
                      \*   order: what was passed and what was returned
    \* ---- component state of components/FaceRecognition.tsx ----
    mode,             \* prop `mode` ("none" while the component is not mounted)
    storedDescriptor, \* prop `storedDescriptor` (<<>> when undefined)
    detectedFace,     \* state `detectedFace` is not null
    matchResult,      \* state `matchResult` ("null", "matching", "not-matching")
    currentDescriptor,\* faces[0].descriptor of the last run of detectFace
    pendingCaptures,  \* detections started by a button click, not yet resolved
    captured,         \* the descriptor handed to onCapture last (<<>>: none yet)
    detecting,        \* the detection loop has its next run scheduled
    \* --- AuthProvider (hooks/useAuth.tsx) ---
    supabaseSession,  \* supabase.auth holds a session (getSession returns it)
    user,             \* state `user` is not null
    sessionTimer,     \* state `sessionTimer`: a timer id, 0 for null
    closure,          \* `user` and `sessionTimer` as the render saw them whose
                      \*   effect run is the current one: the values its
                      \*   listeners, its checkSession and its cleanup read
    checking,         \* checkSession of the current effect run is in flight
    timers,           \* window.setTimeout: per timer id its status, the time
                      \*   since it was set and the `sessionTimer` its
                      \*   callback's signOut reads
    quiet             \* time since the last sign-in or activity event while
                      \*   supabase holds a session

govVars == <<activeRequests, requestQueue, nextTask, st, kind, immediate,
             attempts, retries, delay, waited, delivered, startOrder,
             releases>>

fileVars == <<store, rec, orig, last, envelopes>>

faceVars == <<mode, storedDescriptor, detectedFace, matchResult,
              currentDescriptor, pendingCaptures, captured, detecting>>

authVars == <<supabaseSession, user, sessionTimer, closure, checking, timers,
              quiet>>

vars == <<govVars, fileVars, faceVars, authVars>>

Ok(t, a) == [kind |-> "ok", task |-> t, attempt |-> a, wrapped |-> FALSE]
Err(t, a) == [kind |-> "error", task |-> t, attempt |-> a, wrapped |-> FALSE]

NoDelivery == [task |-> 0, kind |-> "none", immediate |-> FALSE, attempts |-> 0,
               waited |-> 0, outcome |-> Ok(0, 0)]

(***************************************************************************)
(* throttleRequest, line 18: the admission test.                           *)
(***************************************************************************)
CanRunNowOneLess(active) == active < MAX_CONCURRENT_REQUESTS - 1

CanRunNowOffByOne(active) == active <= MAX_CONCURRENT_REQUESTS

CanRunNow(active) == active < MAX_CONCURRENT_REQUESTS

(***************************************************************************)
(* requestQueue.shift() (lines 26 and 45): the waiter that is dispatched   *)
(* and the queue that remains.                                             *)
(***************************************************************************)
ShiftedLast(q) == [next |-> q[Len(q)], rest |-> SubSeq(q, 1, Len(q) - 1)]

ShiftedKeepsHead(q) == [next |-> Head(q), rest |-> q]

Shifted(q) == [next |-> Head(q), rest |-> Tail(q)]

(***************************************************************************)
(* withRetry's catch block (lines 66-74): what happens to an error caught  *)
(* with `r` retries left and the current delay `d`: rethrown as it is, or  *)
(* a wait of `d` ms followed by withRetry(fn, r - 1, d * 1.5).             *)
(***************************************************************************)
OnFailureOneMore(r, d, error) ==
    IF r < 0
    THEN [throw |-> TRUE, error |-> error, retries |-> r, delay |-> d, wait |-> 0]
    ELSE [throw |-> FALSE, error |-> error, retries |-> r - 1,
          delay |-> (d * 3) \div 2, wait |-> d]

OnFailureWrapped(r, d, error) ==
    IF r <= 0
    THEN [throw |-> TRUE, error |-> [error EXCEPT !.wrapped = TRUE],
          retries |-> r, delay |-> d, wait |-> 0]
    ELSE [throw |-> FALSE, error |-> error, retries |-> r - 1,
          delay |-> (d * 3) \div 2, wait |-> d]

OnFailureDoubling(r, d, error) ==
    IF r <= 0
    THEN [throw |-> TRUE, error |-> error, retries |-> r, delay |-> d, wait |-> 0]
    ELSE [throw |-> FALSE, error |-> error, retries |-> r - 1,
          delay |-> d * 2, wait |-> d]

OnFailure(r, d, error) ==
    IF r <= 0
    THEN [throw |-> TRUE, error |-> error, retries |-> r, delay |-> d, wait |-> 0]
    ELSE [throw |-> FALSE, error |-> error, retries |-> r - 1,
          delay |-> (d * 3) \div 2, wait |-> d]

(***************************************************************************)
(* The body that starts running a call: the first invocation of the task   *)
(* function (lines 21 and 37).  For safeRequest the task function is       *)
(* () => withRetry(fn), entered with the default parameters (lines 61-62). *)
(***************************************************************************)
StartFields(t) ==
    /\ attempts' = [attempts EXCEPT ![t] = 1]
    /\ retries' = [retries EXCEPT ![t] = MAX_RETRIES]
    /\ delay' = [delay EXCEPT ![t] = RETRY_DELAY_MS]
    /\ startOrder' = Append(startOrder, t)

(***************************************************************************)
(* throttleRequest(fn) / safeRequest(fn): lines 16-21 and 32-50, 81-83.    *)
(***************************************************************************)
Submit(k) ==
    /\ nextTask <= MaxTasks
    /\ k = "safe" => Cardinality({u \in Tasks : kind[u] = "safe"}) < MaxSafe
    /\ LET t == nextTask IN
       /\ nextTask' = nextTask + 1
       /\ kind' = [kind EXCEPT ![t] = k]
       /\ IF CanRunNow(activeRequests)
          THEN /\ activeRequests' = activeRequests + 1
               /\ st' = [st EXCEPT ![t] = "running"]
               /\ immediate' = [immediate EXCEPT ![t] = TRUE]
               /\ StartFields(t)
               /\ UNCHANGED requestQueue
          ELSE /\ requestQueue' = Append(requestQueue, t)
               /\ st' = [st EXCEPT ![t] = "queued"]
               /\ UNCHANGED <<activeRequests, immediate, attempts, retries,
                              delay, startOrder>>
    /\ delivered' = NoDelivery
    /\ UNCHANGED <<waited, releases>>
    /\ UNCHANGED <<fileVars, faceVars, authVars>>

(***************************************************************************)
(* The continuation after `await fn()` in throttleRequest: the caller's    *)
(* promise takes the task's outcome (return / resolve / reject) and the    *)
(* finally block runs (lines 22-29 and 41-48): activeRequests--, then the  *)
(* head waiter, if any, is shifted and called, which runs its              *)
(* activeRequests++ and first invocation synchronously (lines 35-37).      *)
(* The frame of call t is dropped.                                         *)
(***************************************************************************)
ReturnedQueuedUndefined(t, outcome) ==
    /\ delivered' = [task |-> t, kind |-> kind[t], immediate |-> immediate[t],
                     attempts |-> attempts[t], waited |-> waited[t],
                     outcome |-> IF immediate[t] THEN outcome ELSE Ok(0, 0)]
    /\ releases' = [releases EXCEPT ![t] = releases[t] + 1]
    /\ kind' = [kind EXCEPT ![t] = "none"]
    /\ immediate' = [immediate EXCEPT ![t] = FALSE]
    /\ waited' = [waited EXCEPT ![t] = 0]

Returned(t, outcome) ==
    /\ delivered' = [task |-> t, kind |-> kind[t], immediate |-> immediate[t],
                     attempts |-> attempts[t], waited |-> waited[t],
                     outcome |-> outcome]
    /\ releases' = [releases EXCEPT ![t] = releases[t] + 1]
    /\ kind' = [kind EXCEPT ![t] = "none"]
    /\ immediate' = [immediate EXCEPT ![t] = FALSE]
    /\ waited' = [waited EXCEPT ![t] = 0]

FinallyNoDispatch(t, outcome) ==
    /\ Returned(t, outcome)
    /\ activeRequests' = activeRequests - 1
    /\ st' = [st EXCEPT ![t] = "done"]
    /\ attempts' = [attempts EXCEPT ![t] = 0]
    /\ retries' = [retries EXCEPT ![t] = 0]
    /\ delay' = [delay EXCEPT ![t] = 0]
    /\ UNCHANGED <<requestQueue, startOrder>>

FinallyOnlyOnSuccess(t, outcome) ==
    IF outcome.kind = "error"
    THEN /\ delivered' = [task |-> t, kind |-> kind[t], immediate |-> immediate[t],
                          attempts |-> attempts[t], waited |-> waited[t],
                          outcome |-> outcome]
         /\ kind' = [kind EXCEPT ![t] = "none"]
         /\ immediate' = [immediate EXCEPT ![t] = FALSE]
         /\ waited' = [waited EXCEPT ![t] = 0]
         /\ st' = [st EXCEPT ![t] = "done"]
         /\ attempts' = [attempts EXCEPT ![t] = 0]
         /\ retries' = [retries EXCEPT ![t] = 0]
         /\ delay' = [delay EXCEPT ![t] = 0]
         /\ UNCHANGED <<activeRequests, requestQueue, startOrder, releases>>
    ELSE FinallyNoDispatch(t, outcome)

Finally(t, outcome) ==
    /\ Returned(t, outcome)
    /\ IF Len(requestQueue) > 0
       THEN LET s == Shifted(requestQueue) IN
            /\ requestQueue' = s.rest
            /\ activeRequests' = (activeRequests - 1) + 1
            /\ st' = [st EXCEPT ![t] = "done", ![s.next] = "running"]
            /\ attempts' = [attempts EXCEPT ![t] = 0, ![s.next] = 1]
            /\ retries' = [retries EXCEPT ![t] = 0, ![s.next] = MAX_RETRIES]
            /\ delay' = [delay EXCEPT ![t] = 0, ![s.next] = RETRY_DELAY_MS]
            /\ startOrder' = Append(startOrder, s.next)
       ELSE /\ activeRequests' = activeRequests - 1
            /\ st' = [st EXCEPT ![t] = "done"]
            /\ attempts' = [attempts EXCEPT ![t] = 0]
            /\ retries' = [retries EXCEPT ![t] = 0]
            /\ delay' = [delay EXCEPT ![t] = 0]
            /\ UNCHANGED <<requestQueue, startOrder>>

(***************************************************************************)
(* An invocation of the task function resolves: withRetry (if any) returns *)
(* the value (line 65) and throttleRequest's continuation runs.            *)
(***************************************************************************)
AttemptSucceeds(t) ==
    /\ st[t] = "running"
    /\ Finally(t, Ok(t, attempts[t]))
    /\ UNCHANGED <<nextTask>>
    /\ UNCHANGED <<fileVars, faceVars, authVars>>

(***************************************************************************)
(* An invocation of the task function rejects.  Under throttleRequest the  *)
(* rejection is the task's outcome; under safeRequest withRetry's catch    *)
(* block decides (lines 66-74): rethrow, or wait `delay` keeping the slot. *)
(***************************************************************************)
AttemptFailsReleasing(t) ==
    /\ st[t] = "running"
    /\ LET error == Err(t, attempts[t])
           c == OnFailure(retries[t], delay[t], error)
       IN IF kind[t] = "throttle"
          THEN Finally(t, error)
          ELSE IF c.throw
          THEN Finally(t, c.error)
          ELSE /\ st' = [st EXCEPT ![t] = "backoff"]
               /\ activeRequests' = activeRequests - 1
               /\ delivered' = NoDelivery
               /\ UNCHANGED <<requestQueue, kind, immediate,
                              attempts, retries, delay, waited,
                              startOrder, releases>>
    /\ UNCHANGED <<nextTask>>
    /\ UNCHANGED <<fileVars, faceVars, authVars>>

AttemptFails(t) ==
    /\ st[t] = "running"
    /\ LET error == Err(t, attempts[t])
           c == OnFailure(retries[t], delay[t], error)
       IN IF kind[t] = "throttle"
          THEN Finally(t, error)
          ELSE IF c.throw
          THEN Finally(t, c.error)
          ELSE /\ st' = [st EXCEPT ![t] = "backoff"]
               /\ delivered' = NoDelivery
               /\ UNCHANGED <<activeRequests, requestQueue, kind, immediate,
                              attempts, retries, delay, waited,
                              startOrder, releases>>
    /\ UNCHANGED <<nextTask>>
    /\ UNCHANGED <<fileVars, faceVars, authVars>>

(***************************************************************************)
(* The setTimeout of line 70 fires: withRetry(fn, retries - 1, delay*1.5)  *)
(* is entered and invokes fn again (lines 73, 65).                         *)
(***************************************************************************)
BackoffElapsed(t) ==
    /\ st[t] = "backoff"
    /\ LET c == OnFailure(retries[t], delay[t], Err(t, attempts[t])) IN
       /\ waited' = [waited EXCEPT ![t] = waited[t] + c.wait]
       /\ retries' = [retries EXCEPT ![t] = c.retries]
       /\ delay' = [delay EXCEPT ![t] = c.delay]
    /\ attempts' = [attempts EXCEPT ![t] = attempts[t] + 1]
    /\ st' = [st EXCEPT ![t] = "running"]
    /\ delivered' = NoDelivery
    /\ UNCHANGED <<activeRequests, requestQueue, nextTask, kind, immediate,
                   startOrder, releases>>
    /\ UNCHANGED <<fileVars, faceVars, authVars>>

(***************************************************************************)
(* The cipher engines of lib/encryption (src/unnamed/part_003).            *)
(*                                                                         *)
(* Byte buffers are symbolic: a buffer is a plaintext `data` wrapped in a  *)
(* sequence of AES-GCM layers, innermost first.  A layer records the key   *)
(* and IV it was sealed with, the IV bytes written in front of it          *)
(* ("" when none) and whether a bit of it was flipped afterwards.  Random  *)
(* 96-bit IVs are taken to differ from the constant verification IV.       *)
(***************************************************************************)
Files == {"f1"}
Plaintexts == {"P1", "P2"}
Passwords == {"pw1", "pw2"}
\* how many 16-byte salts crypto.getRandomValues hands out in a behaviour
MaxSalts == 2
Salts == 1..MaxSalts
RandomIVs == {"ivA"}
RandomKeys == {"k1", "k2"}

\* how many AES-GCM layers a stored buffer may carry
MaxLayers == 2

\* new Uint8Array(12).fill(1)  (lines 295, 362)
FixedIV == "iv0101"

Plain(p) == [data |-> p, layers |-> <<>>]

\* encoder.encode("VERIFICATION_STRING")  (lines 291, 358)
Marker == Plain("VERIFICATION_STRING")

\* btoa(String.fromCharCode(...bytes)) and Uint8Array.from(atob(s), ...)
Btoa(bytes) == [b64 |-> bytes]
Atob(s) == s.b64

\* crypto.subtle.generateKey (lines 150-157) and the PBKDF2 derivation of
\* deriveKeyFromPassword (lines 238-276) with the salt that is used
GeneratedKey(bits) ==
    [from |-> "generateKey", pw |-> "", salt |-> 0, bits |-> bits]
DeriveKeyFromPassword(password, salt) ==
    [from |-> "pbkdf2", pw |-> password, salt |-> salt, bits |-> ""]

\* crypto.subtle.encrypt({name: 'AES-GCM', iv}, key, buffer)
AesGcmEncrypt(key, iv, buffer) ==
    [buffer EXCEPT !.layers =
        Append(@, [key |-> key, iv |-> iv, prefix |-> "", flipped |-> FALSE])]

\* combinedBuffer.set(iv); combinedBuffer.set(encrypted, iv.length)
Combine(iv, encrypted) ==
    [encrypted EXCEPT !.layers[Len(encrypted.layers)].prefix = iv]

\* encryptedData.slice(0, 12) and encryptedData.slice(12)
SliceIv(blob) ==
    IF Len(blob.layers) > 0 /\ blob.layers[Len(blob.layers)].prefix # ""
    THEN blob.layers[Len(blob.layers)].prefix
    ELSE "other"
SliceCiphertext(blob) ==
    IF Len(blob.layers) > 0
    THEN [blob EXCEPT !.layers[Len(blob.layers)].prefix = ""]
    ELSE blob

AesGcmDecryptUnauthenticated(key, iv, ciphertext) ==
    LET n == Len(ciphertext.layers) IN
    IF /\ n > 0
       /\ ciphertext.layers[n].prefix = ""
    THEN [ok |-> TRUE,
          buffer |-> [ciphertext EXCEPT !.layers = SubSeq(@, 1, n - 1)]]
    ELSE [ok |-> FALSE, buffer |-> ciphertext]

\* crypto.subtle.decrypt({name: 'AES-GCM', iv}, key, ciphertext): the
\* plaintext, or an exception when the authentication tag does not verify
AesGcmDecrypt(key, iv, ciphertext) ==
    LET n == Len(ciphertext.layers) IN
    IF /\ n > 0
       /\ ciphertext.layers[n].key = key
       /\ ciphertext.layers[n].iv = iv
       /\ ciphertext.layers[n].prefix = ""
       /\ ~ciphertext.layers[n].flipped
    THEN [ok |-> TRUE,
          buffer |-> [ciphertext EXCEPT !.layers = SubSeq(@, 1, n - 1)]]
    ELSE [ok |-> FALSE, buffer |-> ciphertext]

\* encryptFile (lines 148-194) with the key and IV that were drawn
EncryptFile(file, rkey, riv) ==
    LET key == GeneratedKey(rkey) IN
    [encryptedFile |-> Combine(riv, AesGcmEncrypt(key, riv, file)),
     key |-> Btoa(key)]

DecryptFileNoSlice(encryptedFile, keyBase64) ==
    AesGcmDecrypt(Atob(keyBase64), SliceIv(encryptedFile), encryptedFile)

\* decryptFile (lines 199-233): throws when the decryption fails
DecryptFile(encryptedFile, keyBase64) ==
    AesGcmDecrypt(Atob(keyBase64), SliceIv(encryptedFile),
                  SliceCiphertext(encryptedFile))

\* the verification hash of lines 290-300 and 357-367
VerificationHash(key) == Btoa(AesGcmEncrypt(key, FixedIV, Marker))

EncryptFileWithPasswordIvNotStored(file, password, rsalt, riv) ==
    LET key == DeriveKeyFromPassword(password, rsalt) IN
    [encryptedFile |-> AesGcmEncrypt(key, riv, file),
     salt |-> Btoa(rsalt),
     verificationHash |-> VerificationHash(key)]

EncryptFileWithPasswordFixedIv(file, password, rsalt, riv) ==
    LET key == DeriveKeyFromPassword(password, rsalt) IN
    [encryptedFile |-> Combine(FixedIV, AesGcmEncrypt(key, FixedIV, file)),
     salt |-> Btoa(rsalt),
     verificationHash |-> VerificationHash(key)]

\* encryptFileWithPassword (lines 281-337) with the salt and IV drawn
EncryptFileWithPassword(file, password, rsalt, riv) ==
    LET key == DeriveKeyFromPassword(password, rsalt) IN
    [encryptedFile |-> Combine(riv, AesGcmEncrypt(key, riv, file)),
     salt |-> Btoa(rsalt),
     verificationHash |-> VerificationHash(key)]

\* decryptFileWithPassword (lines 342-404).  `steps` lists the calls of the
\* crypto primitives in the order in which the function makes them.
DecryptFileWithPasswordEager(encryptedFile, password, saltBase64, verificationHash) ==
    LET key == DeriveKeyFromPassword(password, Atob(saltBase64))
        d == AesGcmDecrypt(key, SliceIv(encryptedFile),
                           SliceCiphertext(encryptedFile))
        calculatedHash == VerificationHash(key)
    IN IF ~d.ok
       THEN [success |-> FALSE, decryptedFile |-> <<>>,
             steps |-> <<"deriveKey", "decryptPayload">>]
       ELSE IF calculatedHash # verificationHash
       THEN [success |-> FALSE, decryptedFile |-> <<>>,
             steps |-> <<"deriveKey", "decryptPayload", "encryptMarker", "compareHash">>]
       ELSE [success |-> TRUE, decryptedFile |-> <<d.buffer>>,
             steps |-> <<"deriveKey", "decryptPayload", "encryptMarker", "compareHash">>]

DecryptFileWithPassword(encryptedFile, password, saltBase64, verificationHash) ==
    LET key == DeriveKeyFromPassword(password, Atob(saltBase64))
        calculatedHash == VerificationHash(key)
    IN IF calculatedHash # verificationHash
       THEN [success |-> FALSE, decryptedFile |-> <<>>,
             steps |-> <<"deriveKey", "encryptMarker", "compareHash">>]
       ELSE LET d == AesGcmDecrypt(key, SliceIv(encryptedFile),
                                   SliceCiphertext(encryptedFile))
            IN IF d.ok
               THEN [success |-> TRUE, decryptedFile |-> <<d.buffer>>,
                     steps |-> <<"deriveKey", "encryptMarker", "compareHash",
                                 "decryptPayload">>]
               ELSE [success |-> FALSE, decryptedFile |-> <<>>,
                     steps |-> <<"deriveKey", "encryptMarker", "compareHash",
                                 "decryptPayload">>]

(***************************************************************************)
(* The file operations of hooks/useFiles.ts, for a signed-in owner.  Each  *)
(* operation is one action; `fail` names the network call that returns an  *)
(* error ("none" when all succeed).                                        *)
(***************************************************************************)
NoOp == [op |-> "none", file |-> "", ret |-> "", message |-> "", saved |-> <<>>,
         steps |-> <<>>, password |-> "", type |-> ""]

Returns(op, f, ret, message, password) ==
    [op |-> op, file |-> f, ret |-> ret, message |-> message, saved |-> <<>>,
     steps |-> <<>>, password |-> password, type |-> ""]

(***************************************************************************)
(* The content scan of lib/security.ts.  A File is described by its MIME   *)
(* type, its size in bytes and whether its content holds something the     *)
(* scan looks for (an overflow pattern or a signature in text, an MZ or    *)
(* ELF header in binary data).                                             *)
(***************************************************************************)
MAX_SCAN_SIZE == 50 * 1024 * 1024

DangerousTypes ==
    {"application/x-msdownload", "application/x-msdos-program",
     "application/x-msdos-windows", "application/x-download",
     "application/bat", "application/x-bat", "application/com",
     "application/x-com", "application/exe", "application/x-exe",
     "application/x-winexe", "application/vnd.microsoft.portable-executable"}

FileTypes == {"application/x-msdownload", "text/plain"}
FileSizes == {MAX_SCAN_SIZE, MAX_SCAN_SIZE + 1}

\* validateFileContent (lines 39-114)
ValidateFileContent(type, size, threat) ==
    IF size > MAX_SCAN_SIZE THEN TRUE
    ELSE IF type \in DangerousTypes THEN FALSE
    ELSE ~threat

NextSaltOfPreviousEnvelope ==
    IF envelopes = <<>> THEN 1 ELSE Atob(envelopes[Len(envelopes)].salt)

\* window.crypto.getRandomValues(new Uint8Array(16)) in deriveKeyFromPassword
\* (part_003 line 243): the salts handed out are numbered, the n-th draw of
\* a behaviour returns salt n, so a drawn salt has not been drawn before
NextSalt == Len(envelopes) + 1

\* the bookkeeping of one call encryptFileWithPassword(file, password) that
\* returned e, when the operation got as far as making the call
EncryptFileWithPasswordCalled(called, file, password, e) ==
    IF called
    THEN /\ Len(envelopes) < MaxSalts
         /\ envelopes' = Append(envelopes,
                [file |-> file, password |-> password, salt |-> e.salt,
                 verificationHash |-> e.verificationHash,
                 encryptedFile |-> e.encryptedFile])
    ELSE UNCHANGED envelopes

\* uploadFile (lines 62-149); password "" stands for no password
UploadFile(f, p, type, size, threat, encrypt, password, rsalt, riv, rkey, fail) ==
    /\ rec[f] = <<>>
    /\ LET file == Plain(p)
           isFileSafe == ValidateFileContent(type, size, threat)
           pw == EncryptFileWithPassword(file, password, rsalt, riv)
           en == EncryptFile(file, rkey, riv)
           isPasswordProtected == password # ""
           fileToUpload == IF password # "" THEN pw.encryptedFile
                           ELSE IF encrypt THEN en.encryptedFile
                           ELSE file
           newFile == [is_encrypted |-> encrypt \/ isPasswordProtected,
                       encryption_key |-> IF password = "" /\ encrypt
                                          THEN <<en.key>> ELSE <<>>,
                       isPasswordProtected |-> isPasswordProtected,
                       salt |-> IF password # "" THEN <<pw.salt>> ELSE <<>>,
                       verificationHash |-> IF password # ""
                                            THEN <<pw.verificationHash>> ELSE <<>>]
       IN IF ~isFileSafe
          THEN /\ last' = Returns("upload", f, "null", "Security scan failed",
                                  password)
               /\ UNCHANGED <<store, rec, orig>>
          ELSE IF fail = "upload"
          THEN /\ last' = Returns("upload", f, "null", "Upload failed", password)
               /\ UNCHANGED <<store, rec, orig>>
          ELSE IF fail = "insert"
          THEN /\ store' = [store EXCEPT ![f] = <<fileToUpload>>]
               /\ last' = Returns("upload", f, "null", "Upload failed", password)
               /\ UNCHANGED <<rec, orig>>
          ELSE /\ store' = [store EXCEPT ![f] = <<fileToUpload>>]
               /\ rec' = [rec EXCEPT ![f] = <<newFile>>]
               /\ orig' = [orig EXCEPT ![f] = p]
               /\ last' = [Returns("upload", f, "file", "File uploaded successfully",
                                   password) EXCEPT !.type = type]
    /\ EncryptFileWithPasswordCalled(
          ValidateFileContent(type, size, threat) /\ password # "", Plain(p),
          password, EncryptFileWithPassword(Plain(p), password, rsalt, riv))
    /\ UNCHANGED <<govVars, faceVars, authVars>>

DownloadFileNoPrompt(f, password, fail) ==
    /\ IF fail # "none" \/ rec[f] = <<>> \/ store[f] = <<>>
       THEN last' = Returns("download", f, "failure", "Download failed", password)
       ELSE LET file == rec[f][1]
                data == store[f][1]
            IN IF file.isPasswordProtected /\ password # ""
               THEN LET r == DecryptFileWithPassword(data, password,
                                file.salt[1], file.verificationHash[1])
                    IN IF ~r.success \/ r.decryptedFile = <<>>
                       THEN last' = [Returns("download", f, "failure",
                                             "Incorrect password", password)
                                        EXCEPT !.steps = r.steps]
                       ELSE last' = [Returns("download", f, "success", "", password)
                                        EXCEPT !.steps = r.steps,
                                               !.saved = r.decryptedFile]
               ELSE IF file.is_encrypted /\ file.encryption_key # <<>>
               THEN LET d == DecryptFile(data, file.encryption_key[1])
                    IN IF d.ok
                       THEN last' = [Returns("download", f, "success", "", password)
                                        EXCEPT !.saved = <<d.buffer>>]
                       ELSE last' = Returns("download", f, "failure",
                                            "Download failed", password)
               ELSE last' = [Returns("download", f, "success", "", password)
                                EXCEPT !.saved = <<data>>]
    /\ UNCHANGED <<store, rec, orig, envelopes>>
    /\ UNCHANGED <<govVars, faceVars, authVars>>

\* downloadFile (lines 152-234)
DownloadFile(f, password, fail) ==
    /\ IF fail # "none" \/ rec[f] = <<>> \/ store[f] = <<>>
       THEN last' = Returns("download", f, "failure", "Download failed", password)
       ELSE LET file == rec[f][1]
                data == store[f][1]
            IN IF file.isPasswordProtected
               THEN IF password = ""
                    THEN last' = Returns("download", f, "needsPassword",
                                         "This file is password protected", password)
                    ELSE LET r == DecryptFileWithPassword(data, password,
                                     file.salt[1], file.verificationHash[1])
                         IN IF ~r.success \/ r.decryptedFile = <<>>
                            THEN last' = [Returns("download", f, "failure",
                                                  "Incorrect password", password)
                                             EXCEPT !.steps = r.steps]
                            ELSE last' = [Returns("download", f, "success", "", password)
                                             EXCEPT !.steps = r.steps,
                                                    !.saved = r.decryptedFile]
               ELSE IF file.is_encrypted /\ file.encryption_key # <<>>
               THEN LET d == DecryptFile(data, file.encryption_key[1])
                    IN IF d.ok
                       THEN last' = [Returns("download", f, "success", "", password)
                                        EXCEPT !.saved = <<d.buffer>>]
                       ELSE last' = Returns("download", f, "failure",
                                            "Download failed", password)
               ELSE last' = [Returns("download", f, "success", "", password)
                                EXCEPT !.saved = <<data>>]
    /\ UNCHANGED <<store, rec, orig, envelopes>>
    /\ UNCHANGED <<govVars, faceVars, authVars>>

DecryptedForSetPasswordAsStored(f) == [ok |-> TRUE, buffer |-> store[f][1]]

\* what setFilePassword encrypts: the downloaded bytes, decrypted with the
\* record's key when the record has one (lines 318-323)
DecryptedForSetPassword(f) ==
    IF rec[f][1].is_encrypted /\ rec[f][1].encryption_key # <<>>
    THEN DecryptFile(store[f][1], rec[f][1].encryption_key[1])
    ELSE [ok |-> TRUE, buffer |-> store[f][1]]

\* setFilePassword (lines 285-369)
SetFilePassword(f, password, rsalt, riv, fail) ==
    /\ password # ""
    /\ IF fail \in {"select", "download"} \/ rec[f] = <<>> \/ store[f] = <<>>
       THEN /\ last' = Returns("setPassword", f, "false", "Failed to set password",
                               password)
            /\ UNCHANGED <<store, rec, envelopes>>
       ELSE LET file == rec[f][1]
                d == DecryptedForSetPassword(f)
                e == EncryptFileWithPassword(d.buffer, password, rsalt, riv)
            IN IF file.isPasswordProtected \/ ~d.ok
               THEN /\ last' = Returns("setPassword", f, "false",
                                       "Failed to set password", password)
                    /\ UNCHANGED <<store, rec, envelopes>>
               ELSE /\ Len(e.encryptedFile.layers) <= MaxLayers
                    /\ EncryptFileWithPasswordCalled(TRUE, d.buffer, password, e)
                    /\ IF fail = "storage"
                       THEN /\ last' = Returns("setPassword", f, "false",
                                               "Failed to set password", password)
                            /\ UNCHANGED <<store, rec>>
                       ELSE /\ store' = [store EXCEPT ![f] = <<e.encryptedFile>>]
                            /\ IF fail = "record"
                               THEN /\ last' = Returns("setPassword", f, "false",
                                                       "Failed to set password",
                                                       password)
                                    /\ UNCHANGED rec
                               ELSE /\ rec' = [rec EXCEPT ![f] =
                                         <<[file EXCEPT
                                              !.is_encrypted = TRUE,
                                              !.encryption_key = <<>>,
                                              !.isPasswordProtected = TRUE,
                                              !.salt = <<e.salt>>,
                                              !.verificationHash =
                                                  <<e.verificationHash>>]>>]
                                    /\ last' = Returns("setPassword", f, "true", "",
                                                       password)
    /\ UNCHANGED orig
    /\ UNCHANGED <<govVars, faceVars, authVars>>

\* resetFilePassword (lines 372-458): the downloaded bytes themselves are
\* read into an ArrayBuffer (lines 410-423) and encrypted with newPassword
ResetFilePassword(f, newPassword, rsalt, riv, fail) ==
    /\ newPassword # ""
    /\ IF fail \in {"select", "download"} \/ rec[f] = <<>> \/ store[f] = <<>>
       THEN /\ last' = Returns("resetPassword", f, "false",
                               "Failed to reset password", newPassword)
            /\ UNCHANGED <<store, rec, envelopes>>
       ELSE LET file == rec[f][1]
                data == store[f][1]
                originalFile == data
                e == EncryptFileWithPassword(originalFile, newPassword, rsalt, riv)
            IN IF ~file.isPasswordProtected
               THEN /\ last' = Returns("resetPassword", f, "false",
                                       "Failed to reset password", newPassword)
                    /\ UNCHANGED <<store, rec, envelopes>>
               ELSE /\ Len(e.encryptedFile.layers) <= MaxLayers
                    /\ EncryptFileWithPasswordCalled(TRUE, originalFile,
                                                     newPassword, e)
                    /\ IF fail = "storage"
                       THEN /\ last' = Returns("resetPassword", f, "false",
                                               "Failed to reset password",
                                               newPassword)
                            /\ UNCHANGED <<store, rec>>
                       ELSE /\ store' = [store EXCEPT ![f] = <<e.encryptedFile>>]
                            /\ IF fail = "record"
                               THEN /\ last' = Returns("resetPassword", f, "false",
                                                       "Failed to reset password",
                                                       newPassword)
                                    /\ UNCHANGED rec
                               ELSE /\ rec' = [rec EXCEPT ![f] =
                                         <<[file EXCEPT
                                              !.salt = <<e.salt>>,
                                              !.verificationHash =
                                                  <<e.verificationHash>>]>>]
                                    /\ last' = Returns("resetPassword", f, "true", "",
                                                       newPassword)
    /\ UNCHANGED orig
    /\ UNCHANGED <<govVars, faceVars, authVars>>

\* the object store's bytes are altered outside the program: one bit of the
\* stored ciphertext is flipped (spec section 8, concrete scenario)
CorruptStoredBlob(f) ==
    /\ store[f] # <<>>
    /\ Len(store[f][1].layers) > 0
    /\ ~store[f][1].layers[Len(store[f][1].layers)].flipped
    /\ store' = [store EXCEPT ![f] =
                   <<[store[f][1] EXCEPT !.layers[Len(store[f][1].layers)].flipped = TRUE]>>]
    /\ last' = NoOp
    /\ UNCHANGED <<rec, orig, envelopes>>
    /\ UNCHANGED <<govVars, faceVars, authVars>>

(***************************************************************************)
(* components/FaceRecognition.tsx.  A face descriptor is a vector of       *)
(* numbers; its components are written in tenths (<<3, 4>> is (0.3, 0.4)). *)
(* A frame of the camera shows no face (<<>>) or one face (<<d>>).         *)
(***************************************************************************)
Descriptors == {<<0, 0>>, <<3, 0>>, <<3, 4>>, <<4, 4>>}
Frames == {<<>>} \cup {<<d>> : d \in Descriptors}

\* file.metadata.faceDescriptor as the record holds it: a descriptor the
\* camera produced, or an array of another length
StoredDescriptors == Frames \cup {<<<<3, 4, 0>>>>}

\* how many detections started by button clicks may be in flight
MaxPending == 2

\* const threshold = 0.5  (line 132)
threshold == [num |-> 1, den |-> 2]

RECURSIVE SumOfSquaredDifferences(_, _, _)
SumOfSquaredDifferences(a, b, i) ==
    IF i = 0 THEN 0
    ELSE (a[i] - b[i]) * (a[i] - b[i]) + SumOfSquaredDifferences(a, b, i - 1)

\* faceapi.euclideanDistance(a, b) (line 129), kept as its square, in
\* hundredths: the root of the sum of the squared differences
EuclideanDistanceSquared(a, b) == SumOfSquaredDifferences(a, b, Len(a))

EuclideanDistanceNeverThrows(a, b) == FALSE

\* faceapi.euclideanDistance (face-api.js) begins with
\*   if (arr1.length !== arr2.length) throw new Error(...)
EuclideanDistanceThrows(a, b) == Len(a) # Len(b)

\* distance < threshold (line 133), both sides squared
BelowThresholdInclusive(a, b) ==
    EuclideanDistanceSquared(a, b) * threshold.den * threshold.den
       <= 100 * threshold.num * threshold.num

BelowThreshold(a, b) ==
    EuclideanDistanceSquared(a, b) * threshold.den * threshold.den
       < 100 * threshold.num * threshold.num

\* PasswordProtection renders <FaceRecognition mode=... storedDescriptor=...>
\* (PasswordProtection.tsx lines 211-221); models and camera become ready
Mount(m, sd) ==
    /\ mode = "none"
    /\ mode' = m
    /\ storedDescriptor' = sd
    /\ detecting' = TRUE
    /\ UNCHANGED <<detectedFace, matchResult, currentDescriptor,
                   pendingCaptures, captured>>
    /\ UNCHANGED <<govVars, fileVars, authVars>>

\* one run of the detection loop (lines 91-144) on the frame `faces`; an
\* exception thrown by the comparison of line 129 rejects the promise of
\* detectFace after setDetectedFace was called, and requestAnimationFrame of
\* line 144 is not reached
DetectFace(faces) ==
    /\ mode # "none"
    /\ detecting
    /\ IF Len(faces) > 0
       THEN /\ detectedFace' = TRUE
            /\ currentDescriptor' = faces
            /\ IF mode = "verify" /\ storedDescriptor # <<>>
               THEN IF EuclideanDistanceThrows(faces[1], storedDescriptor[1])
                    THEN /\ detecting' = FALSE
                         /\ UNCHANGED matchResult
                    ELSE /\ matchResult' =
                               IF BelowThreshold(faces[1], storedDescriptor[1])
                               THEN "matching" ELSE "not-matching"
                         /\ UNCHANGED detecting
               ELSE UNCHANGED <<matchResult, detecting>>
       ELSE /\ detectedFace' = FALSE
            /\ matchResult' = "null"
            /\ currentDescriptor' = <<>>
            /\ UNCHANGED detecting
    /\ UNCHANGED <<mode, storedDescriptor, pendingCaptures, captured>>
    /\ UNCHANGED <<govVars, fileVars, authVars>>

\* click on "Capture Face" (enabled per line 267): handleCapture, lines
\* 154-169, starts a detection of its own
HandleCapture ==
    /\ mode = "capture"
    /\ detectedFace
    /\ pendingCaptures < MaxPending
    /\ pendingCaptures' = pendingCaptures + 1
    /\ UNCHANGED <<mode, storedDescriptor, detectedFace, matchResult,
                   currentDescriptor, captured, detecting>>
    /\ UNCHANGED <<govVars, fileVars, authVars>>

\* click on "Verify Face" (enabled per line 276): handleVerify, lines
\* 183-190, starts a detection of its own when matchResult is "matching"
HandleVerify ==
    /\ mode = "verify"
    /\ detectedFace /\ matchResult = "matching"
    /\ pendingCaptures < MaxPending
    /\ pendingCaptures' = pendingCaptures + 1
    /\ UNCHANGED <<mode, storedDescriptor, detectedFace, matchResult,
                   currentDescriptor, captured, detecting>>
    /\ UNCHANGED <<govVars, fileVars, authVars>>

\* the detection started by a click resolves with the frame `faces` of
\* that moment (lines 170-175 and 191-195): onCapture(faces[0].descriptor)
CaptureResolves(faces) ==
    /\ pendingCaptures > 0
    /\ pendingCaptures' = pendingCaptures - 1
    /\ IF Len(faces) > 0
       THEN captured' = faces
       ELSE UNCHANGED captured
    /\ UNCHANGED <<mode, storedDescriptor, detectedFace, matchResult,
                   currentDescriptor, detecting>>
    /\ UNCHANGED <<govVars, fileVars, authVars>>

FaceInit ==
    /\ mode = "none"
    /\ storedDescriptor = <<>>
    /\ detectedFace = FALSE
    /\ matchResult = "null"
    /\ currentDescriptor = <<>>
    /\ pendingCaptures = 0
    /\ captured = <<>>
    /\ detecting = FALSE

(***************************************************************************)
(* The session timer of AuthProvider (src/hooks/useAuth.tsx).              *)
(***************************************************************************)
\* const SESSION_TIMEOUT = 30 * 60 * 1000  (line 22)
SESSION_TIMEOUT == 30 * 60 * 1000

\* how many timers window.setTimeout hands out in a behaviour
MaxTimers == 4
\* the clock advances in steps of SESSION_TIMEOUT / TicksPerTimeout
TicksPerTimeout == 2

TimerIds == 1..MaxTimers
TickMs == SESSION_TIMEOUT \div TicksPerTimeout

Unset == [status |-> "unset", age |-> 0, prev |-> 0]
Gone == [status |-> "gone", age |-> 0, prev |-> 0]

Pending == {i \in TimerIds : timers[i].status = "pending"}

\* the id window.setTimeout returns next
NewTimer == 1 + Cardinality({i \in TimerIds : timers[i].status # "unset"})

\* window.clearTimeout(id): nothing happens for an id that has fired or was
\* cleared before
ClearTimeout(ts, id) ==
    IF id # 0 /\ ts[id].status = "pending"
    THEN [ts EXCEPT ![id] = Gone]
    ELSE ts

\* resetSessionTimer (lines 35-48) called from the render whose values are c:
\* clears the timer that render saw, sets a new one, stores its id
ResetSessionTimer(c) ==
    /\ NewTimer <= MaxTimers
    /\ timers' = [ClearTimeout(timers, c.sessionTimer) EXCEPT
                     ![NewTimer] = [status |-> "pending", age |-> 0,
                                    prev |-> c.sessionTimer]]
    /\ sessionTimer' = NewTimer

\* supabase.auth.signInWithPassword succeeds and the SIGNED_IN event reaches
\* the listener of the current effect run (lines 76-94)
SignedIn ==
    /\ ~supabaseSession
    /\ supabaseSession' = TRUE
    /\ user' = TRUE
    /\ ResetSessionTimer(closure)
    /\ quiet' = 0
    /\ UNCHANGED <<closure, checking>>
    /\ UNCHANGED <<govVars, fileVars, faceVars>>

\* checkSession (lines 107-131) of the current effect run gets the answer of
\* supabase.auth.getSession()
CheckSession ==
    /\ checking
    /\ checking' = FALSE
    /\ user' = supabaseSession
    /\ IF supabaseSession
       THEN ResetSessionTimer(closure)
       ELSE UNCHANGED <<timers, sessionTimer>>
    /\ UNCHANGED <<supabaseSession, closure, quiet>>
    /\ UNCHANGED <<govVars, fileVars, faceVars>>

\* a mousedown, keydown, touchstart or scroll event: handleUserActivity
\* (lines 138-142) of the current effect run
HandleUserActivity ==
    /\ IF closure.user
       THEN ResetSessionTimer(closure)
       ELSE UNCHANGED <<timers, sessionTimer>>
    /\ quiet' = 0
    /\ UNCHANGED <<supabaseSession, user, closure, checking>>
    /\ UNCHANGED <<govVars, fileVars, faceVars>>

\* `sessionTimer` or `user` differ from what the current effect run saw: the
\* effect's cleanup runs (lines 148-161: isMounted = false, the timer that
\* run saw is cleared) and the effect runs again with the new values (lines
\* 72-146), starting a checkSession of its own
EffectRuns ==
    /\ <<user, sessionTimer>> # <<closure.user, closure.sessionTimer>>
    /\ timers' = ClearTimeout(timers, closure.sessionTimer)
    /\ closure' = [user |-> user, sessionTimer |-> sessionTimer]
    /\ checking' = TRUE
    /\ UNCHANGED <<supabaseSession, user, sessionTimer, quiet>>
    /\ UNCHANGED <<govVars, fileVars, faceVars>>

\* signOut (lines 209-228) as the render that saw `seen` as sessionTimer
\* defined it: supabase.auth.signOut(), whose SIGNED_OUT event reaches the
\* listener of the current effect run (lines 96-103), then lines 217-220
SignOutSeeing(ts, seen) ==
    /\ supabaseSession' = FALSE
    /\ user' = FALSE
    /\ timers' = ClearTimeout(ClearTimeout(ts, closure.sessionTimer), seen)
    /\ sessionTimer' = IF closure.sessionTimer # 0 \/ seen # 0
                       THEN 0 ELSE sessionTimer
    /\ quiet' = 0

\* the user signs out through the interface, which holds the signOut of the
\* latest render
SignOut ==
    /\ user
    /\ SignOutSeeing(timers, sessionTimer)
    /\ UNCHANGED <<closure, checking>>
    /\ UNCHANGED <<govVars, fileVars, faceVars>>

\* a session timer fires SESSION_TIMEOUT after it was set: its callback
\* (lines 42-45) calls the signOut of the render that set the timer
TimerFires(i) ==
    /\ timers[i].status = "pending"
    /\ timers[i].age >= SESSION_TIMEOUT
    /\ SignOutSeeing([timers EXCEPT ![i] = Gone], timers[i].prev)
    /\ UNCHANGED <<closure, checking>>
    /\ UNCHANGED <<govVars, fileVars, faceVars>>

\* time passes; a timer that is due fires before more time passes
Tick ==
    /\ \A i \in Pending : timers[i].age < SESSION_TIMEOUT
    /\ quiet <= SESSION_TIMEOUT
    /\ timers' = [i \in TimerIds |->
                     IF timers[i].status = "pending"
                     THEN [timers[i] EXCEPT !.age = @ + TickMs]
                     ELSE timers[i]]
    /\ quiet' = IF supabaseSession THEN quiet + TickMs ELSE 0
    /\ UNCHANGED <<supabaseSession, user, sessionTimer, closure, checking>>
    /\ UNCHANGED <<govVars, fileVars, faceVars>>

\* the provider is mounted with no session: the first effect run has
\* subscribed and started its checkSession
AuthInit ==
    /\ supabaseSession = FALSE
    /\ user = FALSE
    /\ sessionTimer = 0
    /\ closure = [user |-> FALSE, sessionTimer |-> 0]
    /\ checking = TRUE
    /\ timers = [i \in TimerIds |-> Unset]
    /\ quiet = 0

FileInit ==
    /\ store = [f \in Files |-> <<>>]
    /\ rec = [f \in Files |-> <<>>]
    /\ orig = [f \in Files |-> ""]
    /\ envelopes = <<>>
    /\ last = NoOp

GovInit ==
    /\ activeRequests = 0
    /\ requestQueue = <<>>
    /\ nextTask = 1
    /\ st = [t \in Tasks |-> "unsubmitted"]
    /\ kind = [t \in Tasks |-> "none"]
    /\ immediate = [t \in Tasks |-> FALSE]
    /\ attempts = [t \in Tasks |-> 0]
    /\ retries = [t \in Tasks |-> 0]
    /\ delay = [t \in Tasks |-> 0]
    /\ waited = [t \in Tasks |-> 0]
    /\ delivered = NoDelivery
    /\ startOrder = <<>>
    /\ releases = [t \in Tasks |-> 0]

Init == GovInit /\ FileInit /\ FaceInit /\ AuthInit

(***************************************************************************)
(* Spec: callers submit through throttleRequest only.                      *)
(***************************************************************************)
Next ==
    \/ Submit("throttle")
    \/ \E t \in Tasks : AttemptSucceeds(t)
    \/ \E t \in Tasks : AttemptFails(t)

Spec == Init /\ [][Next]_vars

(***************************************************************************)
(* SpecRetry: callers submit through throttleRequest and safeRequest.      *)
(***************************************************************************)
NextRetry ==
    \/ \E k \in {"throttle", "safe"} : nextTask <= MaxRetryTasks /\ Submit(k)
    \/ \E t \in Tasks : AttemptSucceeds(t)
    \/ \E t \in Tasks : AttemptFails(t)
    \/ \E t \in Tasks : BackoffElapsed(t)

SpecRetry == Init /\ [][NextRetry]_vars

(***************************************************************************)
(* The governor under the scheduling the runtime provides: an attempt in   *)
(* flight eventually resolves or rejects, and a pending setTimeout         *)
(* eventually fires.  Nothing obliges anyone to submit another call.       *)
(***************************************************************************)
NextLive ==
    \/ \E k \in {"throttle", "safe"} : nextTask <= MaxLiveTasks /\ Submit(k)
    \/ \E t \in Tasks : AttemptSucceeds(t)
    \/ \E t \in Tasks : AttemptFails(t)
    \/ \E t \in Tasks : BackoffElapsed(t)

SpecRetryFair ==
    /\ Init
    /\ [][NextLive]_vars
    /\ \A t \in Tasks : WF_vars(AttemptSucceeds(t) \/ AttemptFails(t))
    /\ \A t \in Tasks : WF_vars(BackoffElapsed(t))

(***************************************************************************)
(* SpecFiles: the file operations on the object store and record store.    *)
(***************************************************************************)
NextFiles ==
    \/ \E f \in Files, p \in Plaintexts, type \in FileTypes, size \in FileSizes,
          threat \in BOOLEAN, encrypt \in BOOLEAN,
          password \in Passwords \cup {""}, riv \in RandomIVs,
          rkey \in RandomKeys, fail \in {"none", "upload", "insert"} :
          UploadFile(f, p, type, size, threat, encrypt, password, NextSalt, riv,
                     rkey, fail)
    \/ \E f \in Files, password \in Passwords \cup {""},
          fail \in {"none", "select", "download"} :
          DownloadFile(f, password, fail)
    \/ \E f \in Files, password \in Passwords, riv \in RandomIVs,
          fail \in {"none", "select", "download", "storage", "record"} :
          SetFilePassword(f, password, NextSalt, riv, fail)
    \/ \E f \in Files, newPassword \in Passwords, riv \in RandomIVs,
          fail \in {"none", "select", "download", "storage", "record"} :
          ResetFilePassword(f, newPassword, NextSalt, riv, fail)
    \/ \E f \in Files : CorruptStoredBlob(f)

SpecFiles == Init /\ [][NextFiles]_vars

(***************************************************************************)
(* SpecFace: the face recognition component, mounted once.                 *)
(***************************************************************************)
NextFace ==
    \/ \E m \in {"capture", "verify"}, sd \in StoredDescriptors : Mount(m, sd)
    \/ \E faces \in Frames : DetectFace(faces)
    \/ HandleCapture
    \/ HandleVerify
    \/ \E faces \in Frames : CaptureResolves(faces)

SpecFace == Init /\ [][NextFace]_vars

\* the session timer of AuthProvider
NextAuth ==
    \/ SignedIn
    \/ CheckSession
    \/ HandleUserActivity
    \/ EffectRuns
    \/ SignOut
    \/ \E i \in TimerIds : TimerFires(i)
    \/ Tick

SpecAuth == Init /\ [][NextAuth]_vars

(***************************************************************************)
(* Properties of the request governor.                                     *)
(***************************************************************************)
\* calls that have begun running and have not reached a terminal outcome
Holders == {t \in Tasks : st[t] \in {"running", "backoff"}}
Waiters == {t \in Tasks : st[t] = "queued"}
Finished == {t \in Tasks : st[t] = "done"}

\* C1: whatever the submissions (throttleRequest or safeRequest) and the
\* completions, in any interleaving, the number of tasks running at the same
\* time is never above the cap of 5 and never below 0.
C1_ActiveWithinCap ==
    /\ activeRequests >= 0
    /\ activeRequests <= MAX_CONCURRENT_REQUESTS
    /\ Cardinality(Holders) <= MAX_CONCURRENT_REQUESTS

C1_Witness ==
    /\ activeRequests = MAX_CONCURRENT_REQUESTS
    /\ Len(requestQueue) > 0
    /\ Finished # {}
    /\ \E t \in Tasks : st[t] = "backoff"

\* C2: tasks that had to wait begin running in their submission order: a
\* waiter that starts is the earliest submitted of all the waiters, whatever
\* the order in which the running tasks complete.
C2_WaitersStartInOrder ==
    [][\A t \in Tasks :
          (st[t] = "queued" /\ st'[t] = "running")
             => \A u \in Tasks : st[u] = "queued" => t <= u]_vars

C2_Witness ==
    /\ \E t \in Tasks : st[t] = "running" /\ ~immediate[t] /\ t > MAX_CONCURRENT_REQUESTS + 1
    /\ Len(requestQueue) > 0
    /\ \E t \in Finished : t > 1 /\ st[1] = "running"

\* C3: the decrement and the dispatch of the head waiter are one step: in
\* every state a non-empty wait queue implies that the running count equals
\* the cap, so no one else can take a freed slot ahead of the head waiter.
C3_QueueImpliesFull ==
    Len(requestQueue) > 0 => activeRequests = MAX_CONCURRENT_REQUESTS

C3_Witness ==
    /\ Len(requestQueue) > 0
    /\ delivered.task # 0
    /\ \E t \in Tasks : st[t] = "running" /\ ~immediate[t]

\* C7: under safeRequest a task keeps its slot from its first attempt to its
\* terminal outcome: a call waiting out a backoff delay is still counted in
\* activeRequests, and entering or leaving the backoff wait neither changes
\* the count nor dispatches a waiter.
C7_SlotHeldWhileRetrying ==
    /\ [](activeRequests = Cardinality(Holders))
    /\ [][\A t \in Tasks :
            (st[t] # st'[t] /\ (st[t] = "backoff" \/ st'[t] = "backoff"))
               => /\ activeRequests' = activeRequests
                  /\ requestQueue' = requestQueue]_vars

C7_Witness ==
    /\ \E t \in Tasks : st[t] = "backoff" /\ attempts[t] = 2
    /\ Len(requestQueue) > 0

\* C8: when every attempt of a task fails (1 initial + 3 retries), withRetry
\* rejects with exactly the error raised by the final attempt, not an earlier
\* attempt's error and not a wrapper around it.
C8_LastErrorUnchanged ==
    (delivered.kind = "safe" /\ delivered.outcome.kind = "error")
       => /\ delivered.attempts = MAX_RETRIES + 1
          /\ delivered.outcome = Err(delivered.task, delivered.attempts)

C8_Witness ==
    /\ delivered.kind = "safe"
    /\ delivered.outcome.kind = "error"
    /\ delivered.attempts = 4

\* C9: withRetry with its defaults invokes the task at most 4 times, makes a
\* further attempt only after a failed attempt, and stops at the first
\* success: a success on the 4th attempt resolves with that attempt's result
\* and a call that has returned makes no further attempt.
C9_AtMostFourAttempts ==
    /\ [](\A t \in Tasks : attempts[t] <= MAX_RETRIES + 1)
    /\ [](delivered.outcome.kind = "ok" /\ delivered.task # 0
            => delivered.outcome = Ok(delivered.task, delivered.attempts))
    /\ [][\A t \in Tasks :
            /\ (attempts[t] > 0 /\ attempts'[t] > attempts[t])
                  => (st[t] = "backoff" /\ attempts'[t] = attempts[t] + 1)
            /\ st[t] = "done" => (st'[t] = "done" /\ attempts'[t] = 0)]_vars

C9_Witness ==
    /\ delivered.kind = "safe"
    /\ delivered.outcome = Ok(delivered.task, 4)
    /\ delivered.waited > 0

\* C10: a submitted task starts at once exactly when fewer than 5 tasks are
\* running at the moment of submission; otherwise it waits, and a waiter
\* starts only in a step in which a running task reaches a terminal state.
\* 8 submissions without a completion leave the first 5 running and the
\* last 3 waiting.
C10_Admission ==
    /\ [][\A t \in Tasks :
            /\ (st[t] = "unsubmitted" /\ st'[t] # "unsubmitted")
                  => /\ st'[t] \in {"running", "queued"}
                     /\ st'[t] = "running"
                           <=> Cardinality(Holders) < MAX_CONCURRENT_REQUESTS
            /\ (st[t] = "queued" /\ st'[t] # "queued")
                  => /\ st'[t] = "running"
                     /\ \E u \in Holders : st'[u] = "done"]_vars
    /\ []((nextTask = 9 /\ Finished = {})
             => /\ \A t \in 1..5 : st[t] = "running"
                /\ \A t \in 6..8 : st[t] = "queued")

C10_Witness ==
    /\ nextTask = 9
    /\ Finished = {}
    /\ requestQueue = <<6, 7, 8>>

\* C11: when every attempt of a task function eventually settles, every call
\* submitted to the governor -- admitted at once, queued, or backing off
\* between retries -- eventually completes; no waiter stays in the queue.
C11_EveryCallCompletes ==
    \A t \in Tasks :
        (st[t] \in {"queued", "running", "backoff"}) ~> (st[t] = "done")

\* a call that had to wait in the queue has completed
C11_Witness ==
    /\ delivered.task # 0
    /\ ~delivered.immediate
    /\ st[delivered.task] = "done"
    /\ requestQueue = <<>>


\* C21: with the defaults withRetry waits 1000 ms before the 1st retry,
\* 1500 ms before the 2nd and 2250 ms before the 3rd, so a call that fails 3
\* times and then succeeds has waited 4750 ms in all; nothing is waited
\* after the last failed attempt (a call rejected after 4 attempts has waited
\* the same 4750 ms).
C21_BackoffSchedule ==
    /\ \A t \in Tasks :
          (kind[t] = "safe" /\ st[t] \in {"running", "backoff"}) =>
             /\ attempts[t] = 1 => (delay[t] = 1000 /\ waited[t] = 0)
             /\ attempts[t] = 2 => (delay[t] = 1500 /\ waited[t] = 1000)
             /\ attempts[t] = 3 => (delay[t] = 2250 /\ waited[t] = 2500)
             /\ attempts[t] = 4 => waited[t] = 4750
    /\ delivered.kind = "safe" =>
          /\ delivered.attempts = 1 => delivered.waited = 0
          /\ delivered.attempts = 2 => delivered.waited = 1000
          /\ delivered.attempts = 3 => delivered.waited = 2500
          /\ delivered.attempts = 4 => delivered.waited = 4750

\* a safeRequest call has succeeded on its 4th attempt
C21_Witness ==
    /\ delivered.kind = "safe"
    /\ delivered.outcome = Ok(delivered.task, 4)
    /\ delivered.waited = 4750

InFlight == {t \in Tasks : st[t] \in {"queued", "running", "backoff"}}

\* C25: every call that began running releases its slot exactly once, in the
\* step in which it reaches its terminal outcome -- success or failure,
\* started at once or from the queue; so when no submitted call is left
\* unfinished the running count is 0 and the wait queue is empty.
C25_ReleasedExactlyOnce ==
    /\ [](\A t \in Tasks : releases[t] = IF st[t] = "done" THEN 1 ELSE 0)
    /\ [](InFlight = {} => (activeRequests = 0 /\ requestQueue = <<>>))
    /\ [][\A t \in Tasks :
            releases'[t] # releases[t] =>
               /\ st[t] = "running" /\ st'[t] = "done"
               /\ \/ /\ requestQueue = <<>>
                     /\ activeRequests' = activeRequests - 1
                  \/ /\ requestQueue # <<>>
                     /\ requestQueue' = Tail(requestQueue)
                     /\ activeRequests' = activeRequests]_vars

\* all calls are finished, the last one a queued call that was rejected
C25_Witness ==
    /\ InFlight = {}
    /\ Cardinality(Finished) > MAX_CONCURRENT_REQUESTS
    /\ ~delivered.immediate
    /\ delivered.outcome.kind = "error"
    /\ activeRequests = 0

\* C26: each call goes QUEUED -> RUNNING -> terminal (or straight to RUNNING):
\* it is started exactly once, it leaves the wait queue in the step in which
\* it starts, it is never in the queue while it holds a slot, a retry never
\* puts it back in the queue, and a finished call is never started again.
C26_Lifecycle ==
    /\ [](\A t \in Tasks :
            /\ Cardinality({i \in 1..Len(requestQueue) : requestQueue[i] = t})
                  = IF st[t] = "queued" THEN 1 ELSE 0
            /\ Cardinality({i \in 1..Len(startOrder) : startOrder[i] = t})
                  = IF st[t] \in {"running", "backoff", "done"} THEN 1 ELSE 0)
    /\ [][\A t \in Tasks :
            st'[t] # st[t] =>
               /\ <<st[t], st'[t]>> \in
                     {<<"unsubmitted", "queued">>, <<"unsubmitted", "running">>,
                      <<"queued", "running">>, <<"running", "backoff">>,
                      <<"backoff", "running">>, <<"running", "done">>}
               /\ (st[t] = "backoff" \/ st'[t] = "backoff")
                     => (requestQueue' = requestQueue /\ startOrder' = startOrder)
               /\ (st[t] = "queued" /\ st'[t] = "running")
                     => (Head(requestQueue) = t /\ requestQueue' = Tail(requestQueue))
          ]_vars

\* a safeRequest call that waited in the queue is in its second attempt
C26_Witness ==
    \E t \in Tasks :
        /\ kind[t] = "safe" /\ ~immediate[t]
        /\ st[t] = "running" /\ attempts[t] = 2
        /\ requestQueue # <<>>

\* C20: the promise returned by throttleRequest settles with exactly the
\* value or the error of the task's own settlement -- a resolved attempt
\* gives that attempt's value, a rejected one that attempt's error, nothing
\* wrapped or replaced -- and in the same way whether the call ran at once
\* (return / throw, lines 21-23) or waited (resolve / reject, lines 37-40).
C20_Transparent ==
    [][\A t \in Tasks :
          /\ (st[t] = "running" /\ st'[t] = "done") =>
                /\ delivered'.task = t
                /\ delivered'.immediate = immediate[t]
                /\ delivered'.outcome \in {Ok(t, attempts[t]), Err(t, attempts[t])}
          /\ AttemptSucceeds(t) => delivered'.outcome = Ok(t, attempts[t])
          /\ (AttemptFails(t) /\ st'[t] = "done") =>
                delivered'.outcome = Err(t, attempts[t])
      ]_vars

\* a call that waited in the queue has been rejected with its task's error
C20_Witness ==
    /\ delivered.task # 0
    /\ ~delivered.immediate
    /\ delivered.outcome = Err(delivered.task, 1)

(***************************************************************************)
(* Properties of the password-derived cipher engine and the file           *)
(* operations.                                                             *)
(***************************************************************************)
\* the password passes the verification-hash check of the file's record
HashMatches(f, password) ==
    VerificationHash(DeriveKeyFromPassword(password, Atob(rec[f][1].salt[1])))
       = rec[f][1].verificationHash[1]

\* the last operation was a download that called decryptFileWithPassword
DecryptedWithPassword ==
    /\ last.op = "download"
    /\ last.steps # <<>>

\* C4: a password whose recomputed marker ciphertext differs from the stored
\* verification hash gets the wrong-password outcome without the payload
\* decryption being attempted: the payload is decrypted only after the
\* comparison of the hashes has been made and has succeeded.
C4_VerifyBeforeDecrypt ==
    DecryptedWithPassword =>
       /\ \A i \in 1..Len(last.steps) :
             last.steps[i] = "decryptPayload"
                => /\ \E j \in 1..(i - 1) : last.steps[j] = "compareHash"
                   /\ HashMatches(last.file, last.password)
       /\ ~HashMatches(last.file, last.password)
             => /\ last.ret = "failure"
                /\ last.saved = <<>>
                /\ \A i \in 1..Len(last.steps) : last.steps[i] # "decryptPayload"

C4_Witness ==
    /\ DecryptedWithPassword
    /\ ~HashMatches(last.file, last.password)
    /\ last.ret = "failure"
    /\ Len(store[last.file][1].layers) = 1
    /\ ~store[last.file][1].layers[1].flipped

\* C5: password-based decryption reports two distinguishable failure kinds:
\* a failure under a password that passes the verification-hash check (the
\* payload is corrupted) is never reported as the wrong-password outcome.
C5_FailureKindsDistinct ==
    (DecryptedWithPassword /\ last.ret = "failure"
        /\ HashMatches(last.file, last.password)
        /\ store[last.file][1].layers[Len(store[last.file][1].layers)].key
              = DeriveKeyFromPassword(last.password,
                                      Atob(rec[last.file][1].salt[1]))
        /\ store[last.file][1].layers[Len(store[last.file][1].layers)].flipped)
       => last.message # "Incorrect password"

\* C6: after resetFilePassword(fileId, newPassword) succeeds, decrypting the
\* stored blob with newPassword and the record's new salt and verification
\* hash yields the file's original plaintext.
C6_ResetYieldsPlaintext ==
    (last.op = "resetPassword" /\ last.ret = "true")
       => LET f == last.file
              r == DecryptFileWithPassword(store[f][1], last.password,
                       rec[f][1].salt[1], rec[f][1].verificationHash[1])
          IN /\ r.success
             /\ r.decryptedFile = <<Plain(orig[f])>>

\* C12: every file operation that goes to the object store or the record
\* store is dispatched through the request governor: the step in which
\* uploadFile, downloadFile, setFilePassword or resetFilePassword makes its
\* network calls submits a call to the governor, which then holds a slot or
\* waits in the queue.  (The hook calls the supabase client directly.)
C12_FileOpsThroughGovernor ==
    [][(last' # last /\ last'.op \in {"upload", "download", "setPassword",
                                       "resetPassword"})
          => /\ nextTask' = nextTask + 1
             /\ \/ activeRequests' = activeRequests + 1
                \/ Len(requestQueue') = Len(requestQueue) + 1
      ]_vars

\* C19: a file whose MIME type is in the dangerous-type list is refused by
\* validateFileContent whatever its size or content, so uploadFile never
\* stores and records such a file.  (Files larger than MAX_SCAN_SIZE are
\* accepted before the type is looked at.)
C19_DangerousTypeNeverStored ==
    (last.op = "upload" /\ last.ret = "file") => last.type \notin DangerousTypes

(***************************************************************************)
(* The buffers the cipher engines are applied to below: what the program   *)
(* has stored for a file (plain, encrypted, re-encrypted or altered).      *)
(***************************************************************************)
StoredBuffers == {store[f][1] : f \in {g \in Files : store[g] # <<>>}}

TopLayer(b) == b.layers[Len(b.layers)]

AllKeys ==
    {GeneratedKey(k) : k \in RandomKeys}
       \cup {DeriveKeyFromPassword(pw, s) : pw \in Passwords, s \in Salts}

\* C13: for every buffer P and password pw, decryptFileWithPassword applied to
\* the blob, salt and verification hash that encryptFileWithPassword(P, pw)
\* returned, with the same pw, succeeds and returns exactly P; so the blob
\* uploadFile stored under a password decrypts to the uploaded plaintext.
C13_PasswordRoundTrip ==
    /\ \A P \in StoredBuffers, pw \in Passwords, rsalt \in Salts, riv \in RandomIVs :
          LET e == EncryptFileWithPassword(P, pw, rsalt, riv)
              r == DecryptFileWithPassword(e.encryptedFile, pw, e.salt,
                                           e.verificationHash)
          IN r.success /\ r.decryptedFile = <<P>>
    /\ (last.op = "upload" /\ last.ret = "file" /\ last.password # "") =>
          LET r == DecryptFileWithPassword(store[last.file][1], last.password,
                       rec[last.file][1].salt[1],
                       rec[last.file][1].verificationHash[1])
          IN r.success /\ r.decryptedFile = <<Plain(orig[last.file])>>

\* uploadFile has just stored a file under a password
C13_Witness ==
    /\ last.op = "upload" /\ last.ret = "file" /\ last.password # ""
    /\ rec[last.file][1].isPasswordProtected
    /\ Len(store[last.file][1].layers) = 1

\* C14: for every buffer P, decryptFile applied to the blob and exported key
\* that encryptFile(P) returned gives back exactly P; the blob is the IV
\* followed by the ciphertext with its tag, and decryptFile takes the two
\* apart again at the end of the IV.
C14_SymmetricRoundTrip ==
    /\ \A P \in StoredBuffers, rkey \in RandomKeys, riv \in RandomIVs :
          LET e == EncryptFile(P, rkey, riv)
              d == DecryptFile(e.encryptedFile, e.key)
          IN /\ d.ok /\ d.buffer = P
             /\ SliceIv(e.encryptedFile) = riv
             /\ SliceCiphertext(e.encryptedFile)
                   = AesGcmEncrypt(GeneratedKey(rkey), riv, P)
    /\ (last.op = "upload" /\ last.ret = "file"
          /\ rec[last.file][1].encryption_key # <<>>) =>
          LET d == DecryptFile(store[last.file][1],
                               rec[last.file][1].encryption_key[1])
          IN d.ok /\ d.buffer = Plain(orig[last.file])

\* uploadFile has just stored a file encrypted under a random key
C14_Witness ==
    /\ last.op = "upload" /\ last.ret = "file" /\ last.password = ""
    /\ rec[last.file][1].encryption_key # <<>>
    /\ Len(store[last.file][1].layers) = 1
    /\ TopLayer(store[last.file][1]).prefix \in RandomIVs

\* C15: decryptFile with a key other than the one the blob was sealed under,
\* or on a blob of which a bit was altered, fails and yields no plaintext;
\* downloadFile then hands no content to the user.
C15_KeyRejection ==
    /\ \A b \in StoredBuffers, k \in AllKeys :
          (Len(b.layers) > 0 /\ (TopLayer(b).key # k \/ TopLayer(b).flipped))
             => ~DecryptFile(b, Btoa(k)).ok
    /\ (/\ last.op = "download"
        /\ rec[last.file] # <<>> /\ store[last.file] # <<>>
        /\ ~rec[last.file][1].isPasswordProtected
        /\ rec[last.file][1].is_encrypted
        /\ rec[last.file][1].encryption_key # <<>>
        /\ \/ Len(store[last.file][1].layers) = 0
           \/ TopLayer(store[last.file][1]).key
                 # Atob(rec[last.file][1].encryption_key[1])
           \/ TopLayer(store[last.file][1]).flipped)
          => (last.ret = "failure" /\ last.saved = <<>>)
    /\ (last.op = "download" /\ last.ret # "success") => last.saved = <<>>

\* a download of a file sealed under a random key found the blob altered
C15_Witness ==
    /\ last.op = "download" /\ last.ret = "failure"
    /\ rec[last.file] # <<>> /\ store[last.file] # <<>>
    /\ rec[last.file][1].encryption_key # <<>>
    /\ ~rec[last.file][1].isPasswordProtected
    /\ Len(store[last.file][1].layers) = 1
    /\ TopLayer(store[last.file][1]).key
          = Atob(rec[last.file][1].encryption_key[1])
    /\ TopLayer(store[last.file][1]).flipped

\* C18: every file record is in exactly one protection mode: encryption_key
\* is set only when a random key protects the stored blob and never while
\* isPasswordProtected is true, and isPasswordProtected implies is_encrypted
\* with salt and verificationHash set.
C18_OneProtectionMode ==
    \A f \in Files :
        (rec[f] # <<>> /\ store[f] # <<>>) =>
           LET file == rec[f][1]
               blob == store[f][1]
           IN /\ file.encryption_key # <<>> =>
                    /\ ~file.isPasswordProtected
                    /\ Len(blob.layers) > 0
                    /\ TopLayer(blob).key = Atob(file.encryption_key[1])
                    /\ TopLayer(blob).key.from = "generateKey"
              /\ file.isPasswordProtected =>
                    /\ file.is_encrypted
                    /\ file.salt # <<>>
                    /\ file.verificationHash # <<>>

\* C16: in verify mode a descriptor is handed to onCapture only after an
\* explicit click on Verify, and the descriptor handed over has itself been
\* found to match the stored descriptor (distance < 0.5).  (handleVerify is
\* gated by the matchResult of an earlier live frame and hands over the
\* descriptor of a new detection without comparing it.)
C16_HandOffIsEvaluated ==
    (mode = "verify" /\ captured # <<>>) =>
        /\ storedDescriptor # <<>>
        /\ BelowThreshold(captured[1], storedDescriptor[1])

\* C17: the live match result is "matching" exactly when the Euclidean
\* distance between the frame's descriptor and the stored one, two vectors
\* of equal length, is strictly
\* below 0.5: a descriptor matches itself, a pair at a distance above 0.5
\* does not match, and a pair at distance exactly 0.5 does not match.
C17_MatchIffBelowThreshold ==
    (/\ mode = "verify" /\ storedDescriptor # <<>> /\ currentDescriptor # <<>>
     /\ Len(currentDescriptor[1]) = Len(storedDescriptor[1])) =>
        LET d2 == EuclideanDistanceSquared(currentDescriptor[1],
                                           storedDescriptor[1])
        IN /\ matchResult \in {"matching", "not-matching"}
           /\ (matchResult = "matching") <=> (d2 * 4 < 100)
           /\ currentDescriptor = storedDescriptor => matchResult = "matching"
           /\ d2 * 4 > 100 => matchResult = "not-matching"
           /\ d2 * 4 = 100 => matchResult = "not-matching"

\* the live loop has judged a face at distance exactly 0.5 from the stored one
C17_Witness ==
    /\ mode = "verify" /\ storedDescriptor # <<>> /\ currentDescriptor # <<>>
    /\ EuclideanDistanceSquared(currentDescriptor[1], storedDescriptor[1]) * 4
          = 100
    /\ matchResult = "not-matching"

\* the AES-GCM encryptions the calls of encryptFileWithPassword have made,
\* read off what the calls returned: the key and IV of the outermost layer
\* of the blob and of the verification hash, and what lies under the layer
Under(b) == [b EXCEPT !.layers = SubSeq(@, 1, Len(@) - 1)]

EncryptionOf(b) ==
    [key |-> TopLayer(b).key, iv |-> TopLayer(b).iv, plaintext |-> Under(b)]

Encryptions ==
    {EncryptionOf(envelopes[i].encryptedFile) : i \in DOMAIN envelopes}
       \cup {EncryptionOf(Atob(envelopes[i].verificationHash)) :
                 i \in DOMAIN envelopes}

\* C22: in encryptFileWithPassword the payload is never encrypted under the
\* constant verification IV; an encryption under the constant IV has the
\* fixed marker as its plaintext; and no two encryptions with the same key
\* and the same IV have different plaintexts.
C22_NoKeyIvReuse ==
    /\ \A i \in DOMAIN envelopes :
          /\ TopLayer(envelopes[i].encryptedFile).iv # FixedIV
          /\ Under(envelopes[i].encryptedFile) = envelopes[i].file
    /\ \A u \in Encryptions : u.iv = FixedIV => u.plaintext = Marker
    /\ \A u, v \in Encryptions :
          (u.key = v.key /\ u.iv = v.iv) => u.plaintext = v.plaintext

\* two calls with the same password and different payloads have been made
C22_Witness ==
    /\ Len(envelopes) = 2
    /\ envelopes[1].password = envelopes[2].password
    /\ envelopes[1].file # envelopes[2].file
    /\ TopLayer(envelopes[1].encryptedFile).iv
          = TopLayer(envelopes[2].encryptedFile).iv

\* the salts the file records hold
RecordSalts ==
    {rec[f][1].salt[1] : f \in {g \in Files : rec[g] # <<>> /\ rec[g][1].salt # <<>>}}

\* C23: any two calls of encryptFileWithPassword, whichever operation made
\* them, return different salts, and with the same password different
\* verification hashes; the salt of a call is neither the salt of an earlier
\* envelope nor a salt that a file record held when the call was made.
C23_SaltsAndTagsDiffer ==
    /\ [](\A i, j \in DOMAIN envelopes :
            i # j =>
               /\ envelopes[i].salt # envelopes[j].salt
               /\ envelopes[i].password = envelopes[j].password =>
                     envelopes[i].verificationHash # envelopes[j].verificationHash)
    /\ [][Len(envelopes') > Len(envelopes) =>
            /\ envelopes'[Len(envelopes')].salt \notin RecordSalts
            /\ \A i \in DOMAIN envelopes :
                  envelopes'[Len(envelopes')].salt # envelopes[i].salt]_vars

\* resetFilePassword has re-encrypted a protected file with the password the
\* file already had
C23_Witness ==
    /\ Len(envelopes) = 2
    /\ envelopes[1].password = envelopes[2].password
    /\ last.op = "resetPassword"
    /\ last.ret = "true"

\* the blob stored for f decrypts to the plaintext uploaded as f with the
\* credentials the record of f describes
BlobMatchesRecord(f) ==
    /\ rec[f] # <<>>
    /\ store[f] # <<>>
    /\ IF rec[f][1].isPasswordProtected
       THEN \E pw \in Passwords :
               LET d == DecryptFileWithPassword(store[f][1], pw,
                           rec[f][1].salt[1], rec[f][1].verificationHash[1])
               IN d.success /\ d.decryptedFile = <<Plain(orig[f])>>
       ELSE IF rec[f][1].is_encrypted /\ rec[f][1].encryption_key # <<>>
       THEN DecryptFile(store[f][1], rec[f][1].encryption_key[1])
               = [ok |-> TRUE, buffer |-> Plain(orig[f])]
       ELSE store[f][1] = Plain(orig[f])

\* C27: a setFilePassword or resetFilePassword that fails, at whichever step,
\* leaves a file whose blob matched its record with a blob that still
\* matches its record.
C27_FailureKeepsBlobAndRecordConsistent ==
    [][\A f \in Files :
          (/\ BlobMatchesRecord(f)
           /\ last'.op \in {"setPassword", "resetPassword"}
           /\ last'.file = f
           /\ last'.ret = "false") => BlobMatchesRecord(f)']_vars

\* the record of f is not password protected and the blob of f is what the
\* record says: the plaintext encrypted under the record's key, or the
\* plaintext itself when the record has no key
KeyEncryptedOrPlain(f) ==
    /\ BlobMatchesRecord(f)
    /\ ~rec[f][1].isPasswordProtected

\* C28: a setFilePassword that succeeds on a file that is encrypted with a
\* random key, or not encrypted, leaves a record with encryption_key null
\* and isPasswordProtected true, and a blob from which
\* decryptFileWithPassword, with the chosen password and the salt and
\* verification hash of the record, returns the plaintext uploaded.
C28_SetPasswordReencrypts ==
    [][\A f \in Files :
          (/\ KeyEncryptedOrPlain(f)
           /\ last'.op = "setPassword"
           /\ last'.file = f
           /\ last'.ret = "true") =>
              /\ rec'[f][1].encryption_key = <<>>
              /\ rec'[f][1].isPasswordProtected
              /\ LET d == DecryptFileWithPassword(store'[f][1], last'.password,
                             rec'[f][1].salt[1], rec'[f][1].verificationHash[1])
                 IN d.success /\ d.decryptedFile = <<Plain(orig[f])>>]_vars

\* setFilePassword has succeeded and the only password encryption made so
\* far is the one it made, of the plaintext uploaded
C28_Witness ==
    /\ last.op = "setPassword"
    /\ last.ret = "true"
    /\ Len(envelopes) = 1
    /\ envelopes[1].file = Plain(orig[last.file])
    /\ store[last.file] = <<envelopes[1].encryptedFile>>
    /\ rec[last.file][1].encryption_key = <<>>

\* the last operation was a download of a file whose record is password
\* protected
DownloadedProtected ==
    /\ last.op = "download"
    /\ rec[last.file] # <<>>
    /\ rec[last.file][1].isPasswordProtected

\* C29: downloadFile on a password-protected file hands content to the user
\* only when a password was supplied whose recomputed verification hash
\* equals the stored one; with no password it returns needsPassword (or
\* fails before reaching the record) and saves nothing; with a password that
\* does not pass the check it returns failure and saves nothing.
C29_NoContentWithoutPassword ==
    DownloadedProtected =>
       /\ last.saved # <<>> =>
             (last.password # "" /\ HashMatches(last.file, last.password))
       /\ last.password = "" =>
             /\ last.saved = <<>>
             /\ \/ last.ret = "needsPassword"
                \/ last.ret = "failure" /\ last.message = "Download failed"
       /\ (last.password # "" /\ ~HashMatches(last.file, last.password)) =>
             (last.ret = "failure" /\ last.saved = <<>>)

\* a download without a password was answered with needsPassword
C29_Witness ==
    /\ DownloadedProtected
    /\ store[last.file] # <<>>
    /\ last.password = ""
    /\ last.ret = "needsPassword"

\* a download with a password that does not pass the check was refused
C29_WitnessWrongPassword ==
    /\ DownloadedProtected
    /\ last.password # ""
    /\ ~HashMatches(last.file, last.password)
    /\ last.message = "Incorrect password"

\* the component verifies against a stored descriptor whose length is not
\* the length of the descriptors the camera's frames yield
StoredLengthDiffers ==
    /\ mode = "verify"
    /\ storedDescriptor # <<>>
    /\ \A d \in Descriptors : Len(d) # Len(storedDescriptor[1])

\* C24: comparing a frame's descriptor with a stored descriptor of another
\* length throws: the run of detectFace that made the comparison ends the
\* detection loop, no verdict "matching" or "not-matching" is ever set, the
\* Verify button is never enabled and no descriptor is handed to onCapture.
C24_LengthMismatchRaises ==
    StoredLengthDiffers =>
       /\ matchResult = "null"
       /\ ~(detectedFace /\ matchResult = "matching")
       /\ pendingCaptures = 0
       /\ captured = <<>>
       /\ currentDescriptor # <<>> => ~detecting

\* a frame with a face has been compared with a stored descriptor of another
\* length, and the loop has stopped
C24_Witness ==
    /\ StoredLengthDiffers
    /\ detectedFace
    /\ currentDescriptor # <<>>
    /\ EuclideanDistanceThrows(currentDescriptor[1], storedDescriptor[1])
    /\ ~detecting

\* a timer is set in this step
TimerSet == \E i \in TimerIds : timers[i].status = "unset" /\ timers'[i].status = "pending"

\* C30: while supabase holds a session, the time since the last sign-in or
\* activity event never exceeds SESSION_TIMEOUT (the timer set then has
\* fired and signed the user out by that time); a session timer is set only
\* by a sign-in or an activity event; at most one session timer is pending.
C30_SessionTimeout ==
    /\ [](supabaseSession => quiet <= SESSION_TIMEOUT)
    /\ [][TimerSet => (SignedIn \/ HandleUserActivity)]_vars
    /\ [](Cardinality(Pending) <= 1)

====
